---- MODULE Spec2Model ----
(***************************************************************************)
(* Extraction pipeline orchestrator of gosexpert-experiments.              *)
(*                                                                         *)
(* The model follows src/pipelines/OCR_gemini/step_1_ocr_pipeline.py       *)
(* (GeminiOCRPipeline): the corpus scheduler process_all_pdfs, the         *)
(* document scheduler process_pdf, the page worker process_single_page,    *)
(* the shared rate limiter, and the extraction method selector             *)
(* check_page_has_text.  Pages are named by their 1-based page_index       *)
(* (page_num + 1 in the source), which is also the key of the artifact.    *)
(***************************************************************************)
EXTENDS Integers, Sequences, FiniteSets, TLC

(***************************************************************************)
(* Program constants.                                                      *)
(***************************************************************************)
MIN_TEXT_LENGTH == 50
MIN_WORDS == 10
MAX_WORKERS == 10
MAX_PDF_WORKERS == 4
max_rate == 1
time_period == 1

(***************************************************************************)
(* Bounds of the model.                                                    *)
(***************************************************************************)
\* pages of a document of the small corpora
MaxPages == 2
\* clock ticks in one second
TicksPerSecond == 2
\* runs of the pipeline over the same results directory
MaxRuns == 2
\* text inputs of the selector: padding, words, word length, separators
MaxPad == 1
MaxWords == 11
MaxWordLen == 5
MaxSep == 2
MaxExtra == 6
\* recognition responses: length in tokens
MaxTokens == 4

Max(a, b) == IF a >= b THEN a ELSE b

(***************************************************************************)
(* Embedded text and the extraction method selector.                       *)
(* A text is a sequence of characters; Whitespace are the characters       *)
(* str.strip() and str.split() treat as separators.                        *)
(***************************************************************************)
Whitespace == {" ", "\n"}

Repeat(c, n) == [i \in 1..n |-> c]

RECURSIVE Words(_, _, _, _)
\* n words of wl letters, sep blanks between two words, the last word
\* extra letters longer
Words(n, wl, sep, extra) ==
    IF n = 0 THEN << >>
    ELSE IF n = 1 THEN Repeat("a", wl + extra)
    ELSE Repeat("a", wl) \o Repeat(" ", sep) \o Words(n - 1, wl, sep, extra)

MakeText(lead, n, wl, sep, extra, trail) ==
    Repeat(" ", lead) \o Words(n, wl, sep, extra) \o Repeat("\n", trail)

RECURSIVE LStrip(_)
LStrip(t) ==
    IF t = << >> THEN t
    ELSE IF Head(t) \in Whitespace THEN LStrip(Tail(t)) ELSE t

RECURSIVE RStrip(_)
RStrip(t) ==
    IF t = << >> THEN t
    ELSE IF t[Len(t)] \in Whitespace THEN RStrip(SubSeq(t, 1, Len(t) - 1)) ELSE t

\* str.strip()
Strip(t) == RStrip(LStrip(t))

\* len(str.split()): the number of maximal runs of non-whitespace characters
WordCount(t) ==
    Cardinality({i \in 1..Len(t) :
        /\ t[i] \notin Whitespace
        /\ (i = 1 \/ t[i - 1] \in Whitespace)})

check_page_has_text_lenient(text) ==
    Len(text) >= MIN_TEXT_LENGTH /\ WordCount(text) >= MIN_WORDS

\* TRUE: conventional extraction suffices; FALSE: recognition is required
check_page_has_text(text) ==
    LET text_cleaned == Strip(text)
        word_count == WordCount(text_cleaned)
    IN  Len(text_cleaned) >= MIN_TEXT_LENGTH /\ word_count >= MIN_WORDS

\* the two kinds of page of the corpora: a digital page and a scanned page
RichText == MakeText(0, 12, 4, 1, 0, 1)
ScanText == << >>

(***************************************************************************)
(* State of one run of the Gemini pipeline.                                *)
(***************************************************************************)
VARIABLES
    corpus,             \* the documents of DOWNLOADED_PDFS_DIR, in submission order
    artifacts,          \* per document, the page indexes that have a Result artifact
    torn,               \* per document, the page indexes whose artifact file is incomplete
    startArtifacts,     \* per run so far, artifacts as they were when it began
    run,                \* number of the current run
    rpc,                \* position of process_all_pdfs
    dpc,                \* per document, position of process_pdf
    ppc,                \* per document and page, position of process_single_page
    pres,               \* per document and page, the dict process_single_page returns
    trace,              \* per document and page, the external operations performed
    stats,              \* per document, the stats dict of process_pdf
    overall,            \* overall_stats of process_all_pdfs
    errors,             \* self.errors
    processing_status,  \* self.processing_status
    level,              \* AsyncLimiter._level, in 1/TicksPerSecond of a permit
    sinceCheck,         \* ticks elapsed since AsyncLimiter._last_check
    grantAges,          \* ages in ticks of the permits granted in the last window
    files,              \* what the run has written besides page artifacts
    text,               \* selector check: the embedded text handed to the selector
    has_text,           \* selector check: the method the selector answered
    response,           \* client check: response.text of the recognition service
    ocr_result,         \* client check: what generate gave and the page outcome
    spans,              \* extraction check: the text spans of the page, in reading order
    extracted,          \* extraction check: what extract_text_conventional gave
    pending,            \* the work no thread had taken when the run was interrupted
    exit_status         \* the status main has left the process with

vars == << corpus, artifacts, torn, startArtifacts, run, rpc, dpc, ppc, pres, trace,
           stats, overall, errors, processing_status, level, sinceCheck,
           grantAges, files, text, has_text, response, ocr_result, spans, extracted,
           pending, exit_status >>

limiterVars == << level, sinceCheck, grantAges >>
selectorVars == << text, has_text >>
clientVars == << response, ocr_result >>
extractVars == << spans, extracted >>

DocIds == DOMAIN corpus
PagesOf(d) == 1..corpus[d].pages
EmbeddedText(d, p) == IF p \in corpus[d].rich THEN RichText ELSE ScanText

\* one time window of the limiter, in ticks
WindowTicks == time_period * TicksPerSecond
\* one permit, in the unit of level
Permit == TicksPerSecond

(***************************************************************************)
(* Corpora.  A document is [pages, opens, rich]: its page count, whether   *)
(* fitz.open succeeds on it, and the pages that carry rich embedded text.  *)
(***************************************************************************)
Doc(n, o, r) == [pages |-> n, opens |-> o, rich |-> r]

\* one document of up to MaxPages pages, any subset of its artifacts present
\* (its first page digital, the others scanned)
OneDocScenarios ==
    { [corpus |-> << Doc(n, o, {1}) >>, artifacts |-> << a >>] :
        n \in 1..MaxPages, o \in BOOLEAN, a \in SUBSET (1..MaxPages) }

\* two one-page documents, both scanned, nothing processed yet
TwoDocScenario ==
    [corpus |-> << Doc(1, TRUE, {}), Doc(1, TRUE, {}) >>,
     artifacts |-> << {}, {} >>]

\* more complete documents than document slots
DocPoolScenario ==
    [corpus |-> [d \in 1..(MAX_PDF_WORKERS + 1) |-> Doc(1, TRUE, {})],
     artifacts |-> [d \in 1..(MAX_PDF_WORKERS + 1) |-> {1}]]

\* a document with more pages than page slots, its last page not yet processed
PagePoolScenario ==
    [corpus |-> << Doc(MAX_WORKERS + 1, TRUE, {}) >>,
     artifacts |-> << 1..MAX_WORKERS >>]

\* a document to process and a complete one, in both submission orders
ShuffledScenarios ==
    { [corpus |-> << Doc(1, TRUE, {}), Doc(1, TRUE, {}) >>, artifacts |-> a] :
        a \in { << {}, {1} >>, << {1}, {} >> } }

\* no document at all
EmptyScenario == [corpus |-> << >>, artifacts |-> << >>]

Scenarios ==
    { s \in OneDocScenarios : s.artifacts[1] \subseteq 1..s.corpus[1].pages }
        \cup {TwoDocScenario, EmptyScenario} \cup ShuffledScenarios

\* more documents than document slots, one of them still to process: the
\* last one waits for a slot while a page pool works inside another slot
NestedScenario ==
    [corpus |-> [d \in 1..(MAX_PDF_WORKERS + 1) |-> Doc(1, TRUE, {})],
     artifacts |-> [d \in 1..(MAX_PDF_WORKERS + 1) |->
                        IF d = MAX_PDF_WORKERS THEN {} ELSE {1}]]

PoolScenarios == {TwoDocScenario, DocPoolScenario, PagePoolScenario, EmptyScenario}

NoResult == [success |-> FALSE, skipped |-> FALSE, error |-> "pending"]

NewStats ==
    [total_pages |-> 0, successful_pages |-> 0, failed_pages |-> 0,
     conventional_pages |-> 0, gemini_ocr_pages |-> 0, skipped_pages |-> 0,
     status |-> "processing"]

NewOverall(n) ==
    [total_pdfs |-> n, processed_pdfs |-> 0, skipped_pdfs |-> 0, total_pages |-> 0,
     successful_pages |-> 0, failed_pages |-> 0, conventional_pages |-> 0,
     gemini_ocr_pages |-> 0, skipped_pages |-> 0, pdf_details |-> << >>]

\* main has not called sys.exit yet
NoExit == -1

\* the work queues of the pools at an interruption; none before it
NoPending == [docs |-> {}, pages |-> {}]

NoFiles ==
    [error_log |-> << >>, wrote_error_log |-> FALSE,
     tracking |-> << >>, wrote_tracking |-> FALSE, summaries |-> << >>,
     steps |-> << >>]

\* the state in which process_all_pdfs has submitted every document
RunStart(c, a, r) ==
    /\ corpus = c
    /\ artifacts = a
    /\ torn = [d \in DOMAIN c |-> {}]
    /\ startArtifacts = << a >>
    /\ run = r
    /\ rpc = "running"
    /\ dpc = [d \in DOMAIN c |-> "queued"]
    /\ ppc = [d \in DOMAIN c |-> [p \in 1..c[d].pages |-> "idle"]]
    /\ pres = [d \in DOMAIN c |-> [p \in 1..c[d].pages |-> NoResult]]
    /\ trace = [d \in DOMAIN c |-> [p \in 1..c[d].pages |-> << >>]]
    /\ stats = [d \in DOMAIN c |-> NewStats]
    /\ overall = NewOverall(Len(c))
    /\ errors = << >>
    /\ processing_status = << >>
    /\ level = 0
    /\ sinceCheck = 0
    /\ grantAges = << >>
    /\ files = NoFiles
    /\ pending = NoPending
    /\ exit_status = NoExit

\* the selector check is not part of a run
SelectorIdle == text = << >> /\ has_text = "unasked"
\* nor is the client check
Uncalled == [called |-> FALSE]
ClientIdle == response = << >> /\ ocr_result = Uncalled
\* nor is the extraction check
NotExtracted == [called |-> FALSE]
ExtractIdle == spans = << >> /\ extracted = NotExtracted

Init == SelectorIdle /\ ClientIdle /\ ExtractIdle /\ \E s \in Scenarios : RunStart(s.corpus, s.artifacts, 1)

(***************************************************************************)
(* Helpers.                                                                *)
(***************************************************************************)
ErrorRecord(d, p, stage) == [pdf_file |-> d, page |-> p, stage |-> stage]
\* the 'N/A' page of a document-level ErrorRecord
NoPage == 0

Event(d, p, e) == [trace EXCEPT ![d][p] = Append(@, e)]

AppendRecordOverLast(list, record) ==
    IF list = << >> THEN << record >> ELSE [list EXCEPT ![Len(list)] = record]
\* self.errors.append(...), self.processing_status.append(...): list.append
\* is one indivisible operation of the interpreter, whichever thread calls it
AppendRecord(list, record) == Append(list, record)

\* documents that hold a thread of the corpus pool
InFlightDocs == {d \in DocIds : dpc[d] \in {"precheck", "open", "collect"}}
\* pages of d that hold a thread of d's page pool
RunningPages(d) ==
    {p \in PagesOf(d) : ppc[d][p] \in {"started", "render", "acquire", "granted", "call", "save"}}

\* the pool threads run: until the with blocks of the executors are left,
\* which after an interruption is when every submitted work item has run
\* (ThreadPoolExecutor.__exit__ is shutdown(wait=True), no future cancelled)
WorkersRunning == rpc \in {"running", "interrupted"}

DocSlotAlwaysFree == TRUE
\* ThreadPoolExecutor(max_workers=MAX_PDF_WORKERS): a thread is free
DocSlotFree == Cardinality(InFlightDocs) < MAX_PDF_WORKERS

PageSlotNeverFree(d) == FALSE
\* ThreadPoolExecutor(max_workers=MAX_WORKERS): a thread of d's pool is free
PageSlotFree(d) == Cardinality(RunningPages(d)) < MAX_WORKERS

(***************************************************************************)
(* Document scheduler: process_pdf.                                        *)
(***************************************************************************)
\* a pool thread takes the next submitted document (the work queue is FIFO)
StartPdf(d) ==
    /\ WorkersRunning
    /\ dpc[d] = "queued"
    /\ \A e \in DocIds : e < d => dpc[e] # "queued"
    /\ DocSlotFree
    /\ dpc' = [dpc EXCEPT ![d] = "precheck"]
    /\ UNCHANGED << corpus, artifacts, torn, startArtifacts, run, rpc, ppc, pres, trace,
                    stats, overall, errors, processing_status, limiterVars, files,
                    selectorVars, clientVars, extractVars, pending, exit_status >>

IsCompleteOffByOne(existing_page_count, total_pages) == existing_page_count + 1 >= total_pages
IsCompleteStrict(existing_page_count, total_pages) == existing_page_count > total_pages
\* is_complete = existing_page_count >= total_pages
IsComplete(existing_page_count, total_pages) == existing_page_count >= total_pages

\* is_pdf_already_processed: << is_complete, total_pages, existing_pages >>.
\* The results directory of a document exists once a page of it was saved.
is_pdf_already_processed(d) ==
    IF artifacts[d] = {} THEN << FALSE, 0, 0 >>
    ELSE IF ~corpus[d].opens THEN << FALSE, 0, 0 >>
    ELSE << IsComplete(Cardinality(artifacts[d]), corpus[d].pages),
            corpus[d].pages, Cardinality(artifacts[d]) >>

SkippedStats(total_pages, existing_pages) ==
    [total_pages |-> total_pages, successful_pages |-> existing_pages,
     failed_pages |-> 0, conventional_pages |-> 0,
     gemini_ocr_pages |-> existing_pages, skipped_pages |-> 0,
     status |-> "skipped_already_processed"]

\* process_pdf up to the return of the resumability precheck; the precheck
\* is outside the try block of process_pdf, so an OSError of
\* pdf_results_dir.exists() or glob leaves process_pdf as an exception
PrecheckPdf(d) ==
    /\ dpc[d] = "precheck"
    /\ \E raises \in BOOLEAN :
        IF raises
        THEN /\ dpc' = [dpc EXCEPT ![d] = "raised"]
             /\ UNCHANGED stats
        ELSE LET r == is_pdf_already_processed(d) IN
             IF r[1]
             THEN /\ stats' = [stats EXCEPT ![d] = SkippedStats(r[2], r[3])]
                  /\ dpc' = [dpc EXCEPT ![d] = "done"]
             ELSE /\ stats' = [stats EXCEPT ![d] = NewStats]
                  /\ dpc' = [dpc EXCEPT ![d] = "open"]
    /\ UNCHANGED << corpus, artifacts, torn, startArtifacts, run, rpc, ppc, pres, trace,
                    overall, errors, processing_status, limiterVars, files,
                    selectorVars, clientVars, extractVars, pending, exit_status >>

PdfOpenErrorsUnrecorded(errs, d) == errs
\* the except branch of process_pdf: self.errors.append({... 'stage': 'pdf_open'})
PdfOpenErrors(errs, d) == Append(errs, ErrorRecord(d, NoPage, "pdf_open"))

StatusAfterExceptionUnset == "processing"
\* the except branch of process_pdf: stats['status'] = 'failed'
StatusAfterException == "failed"

\* process_pdf: open the document, create its directory of page images and
\* submit its pages; an exception raised on the way (fitz.open, mkdir) is
\* caught by the except branch, which records it under the stage pdf_open
OpenPdf(d) ==
    /\ dpc[d] = "open"
    /\ \E mkdir_ok \in BOOLEAN :
        IF corpus[d].opens /\ mkdir_ok
        THEN /\ stats' = [stats EXCEPT ![d].total_pages = corpus[d].pages]
             /\ ppc' = [ppc EXCEPT ![d] = [p \in PagesOf(d) |-> "queued"]]
             /\ dpc' = [dpc EXCEPT ![d] = "collect"]
             /\ UNCHANGED << errors, processing_status >>
        ELSE /\ stats' = [stats EXCEPT
                    ![d].total_pages = IF corpus[d].opens THEN corpus[d].pages ELSE @,
                    ![d].status = StatusAfterException]
             /\ errors' = PdfOpenErrors(errors, d)
             /\ processing_status' = AppendRecord(processing_status,
                     [pdf |-> d, stats |-> stats'[d]])
             /\ dpc' = [dpc EXCEPT ![d] = "done"]
             /\ UNCHANGED ppc
    /\ UNCHANGED << corpus, artifacts, torn, startArtifacts, run, rpc, pres, trace,
                    overall, limiterVars, files, selectorVars, clientVars, extractVars, pending, exit_status >>

RecordFailedPageMerged(errs, d, p) ==
    LET same == {i \in DOMAIN errs : errs[i].pdf_file = d /\ errs[i].page = p}
    IN  IF same = {} THEN AppendRecord(errs, ErrorRecord(d, p, "page_processing"))
        ELSE [i \in DOMAIN errs |->
                IF i \in same THEN ErrorRecord(d, p, "page_processing") ELSE errs[i]]
\* the else branch of the as_completed loop of process_pdf:
\* self.errors.append({... 'stage': 'page_processing'}), whatever the list holds
RecordFailedPage(errs, d, p) == AppendRecord(errs, ErrorRecord(d, p, "page_processing"))

\* the as_completed loop of process_pdf takes one finished page
CollectPage(d, p) ==
    /\ dpc[d] = "collect"
    /\ ppc[d][p] = "done"
    /\ ppc' = [ppc EXCEPT ![d][p] = "collected"]
    /\ LET page_result == pres[d][p] IN
        IF page_result.success
        THEN /\ stats' = [stats EXCEPT
                    ![d].successful_pages = @ + 1,
                    ![d].skipped_pages = IF page_result.skipped THEN @ + 1 ELSE @,
                    ![d].gemini_ocr_pages = IF page_result.skipped THEN @ ELSE @ + 1]
             /\ UNCHANGED errors
        ELSE /\ stats' = [stats EXCEPT ![d].failed_pages = @ + 1]
             /\ errors' = RecordFailedPage(errors, d, p)
    /\ UNCHANGED << corpus, artifacts, torn, startArtifacts, run, rpc, dpc, pres, trace,
                    overall, processing_status, limiterVars, files, selectorVars, clientVars, extractVars, pending, exit_status >>

FinalStatusIgnoringFailures(failed_pages) == "completed"
\* 'completed' if stats['failed_pages'] == 0 else 'completed_with_errors'
FinalStatus(failed_pages) ==
    IF failed_pages = 0 THEN "completed" ELSE "completed_with_errors"

\* process_pdf after the as_completed loop: final status, tracking record, return
FinishPdf(d) ==
    /\ dpc[d] = "collect"
    /\ \A p \in PagesOf(d) : ppc[d][p] = "collected"
    /\ stats' = [stats EXCEPT ![d].status = FinalStatus(stats[d].failed_pages)]
    /\ processing_status' = AppendRecord(processing_status, [pdf |-> d, stats |-> stats'[d]])
    /\ dpc' = [dpc EXCEPT ![d] = "done"]
    /\ UNCHANGED << corpus, artifacts, torn, startArtifacts, run, rpc, ppc, pres, trace,
                    overall, errors, limiterVars, files, selectorVars, clientVars, extractVars, pending, exit_status >>

(***************************************************************************)
(* Rate limiter: AsyncLimiter(max_rate=1, time_period=1), one instance     *)
(* shared by every page worker thread, each entering it from the event     *)
(* loop of its own asyncio.run.  The limiter is a leaky bucket: acquire    *)
(* loops on has_capacity (which first leaks the bucket for the time        *)
(* elapsed) and then adds the amount to the level.  Nothing makes the      *)
(* test and the addition one step across threads.                          *)
(***************************************************************************)
\* _leak: the level after since ticks
Leaked(lv, since) ==
    IF lv > 0 THEN Max(lv - ((since * max_rate) \div time_period), 0) ELSE lv

\* has_capacity after _leak
HasCapacity(lv) == lv + Permit <= max_rate * Permit

\* pages whose worker is inside AsyncLimiter.acquire
InLimiter == {dp \in {<< d, p >> : d \in DocIds, p \in 1..MAX_WORKERS + 1} :
                dp[2] \in PagesOf(dp[1]) /\ ppc[dp[1]][dp[2]] \in {"acquire", "granted"}}

\* time passes; only a worker inside the limiter reads the clock, so the
\* ticks between two visits are taken when the next worker has entered
Tick ==
    /\ WorkersRunning
    /\ InLimiter # {}
    /\ sinceCheck < level \/ grantAges # << >>
    /\ sinceCheck' = IF sinceCheck < level THEN sinceCheck + 1 ELSE sinceCheck
    /\ grantAges' = LET aged == [i \in 1..Len(grantAges) |-> grantAges[i] + 1]
                    IN  SelectSeq(aged, LAMBDA a : a < WindowTicks)
    /\ UNCHANGED << corpus, artifacts, torn, startArtifacts, run, rpc, dpc, ppc, pres,
                    trace, stats, overall, errors, processing_status, level, files,
                    selectorVars, clientVars, extractVars, pending, exit_status >>

(***************************************************************************)
(* Page worker: process_single_page, run by a thread of the page pool.     *)
(***************************************************************************)
Skipped == [success |-> TRUE, skipped |-> TRUE, error |-> "None"]
Success == [success |-> TRUE, skipped |-> FALSE, error |-> "None"]
Failure(msg) == [success |-> FALSE, skipped |-> FALSE, error |-> msg]

\* a pool thread takes the next submitted page of d (the work queue is FIFO)
StartPage(d, p) ==
    /\ dpc[d] = "collect"
    /\ ppc[d][p] = "queued"
    /\ \A q \in PagesOf(d) : q < p => ppc[d][q] # "queued"
    /\ PageSlotFree(d)
    /\ ppc' = [ppc EXCEPT ![d][p] = "started"]
    /\ UNCHANGED << corpus, artifacts, torn, startArtifacts, run, rpc, dpc, pres, trace,
                    stats, overall, errors, processing_status, limiterVars, files,
                    selectorVars, clientVars, extractVars, pending, exit_status >>

ResultFileNeverExists(d, p) == FALSE
\* result_file.exists()
ResultFileExists(d, p) == p \in artifacts[d]

\* process_single_page: the idempotency check
CheckPage(d, p) ==
    /\ ppc[d][p] = "started"
    /\ IF ResultFileExists(d, p)
       THEN /\ pres' = [pres EXCEPT ![d][p] = Skipped]
            /\ ppc' = [ppc EXCEPT ![d][p] = "done"]
       ELSE /\ ppc' = [ppc EXCEPT ![d][p] = "render"]
            /\ UNCHANGED pres
    /\ UNCHANGED << corpus, artifacts, torn, startArtifacts, run, rpc, dpc, trace,
                    stats, overall, errors, processing_status, limiterVars, files,
                    selectorVars, clientVars, extractVars, pending, exit_status >>

AfterRenderUnlimited == "call"
\* process_page_image after convert_page_to_image: the worker enters
\* async with self.rate_limiter before it calls generate
AfterRender == "acquire"

\* fitz.open, pdf_document[page_num], convert_page_to_image; the selector is
\* not consulted: every page without an artifact is rendered
RenderPage(d, p) ==
    /\ ppc[d][p] = "render"
    /\ \E outcome \in {"ok", "open_failed", "render_failed"} :
        IF outcome = "ok"
        THEN /\ trace' = [trace EXCEPT ![d][p] = @ \o << "open", "render" >>]
             /\ ppc' = [ppc EXCEPT ![d][p] = AfterRender]
             /\ UNCHANGED pres
        ELSE /\ trace' = [trace EXCEPT ![d][p] =
                    IF outcome = "open_failed" THEN @ \o << "open_failed" >>
                    ELSE @ \o << "open", "render_failed" >>]
             /\ pres' = [pres EXCEPT ![d][p] = Failure("exception")]
             /\ ppc' = [ppc EXCEPT ![d][p] = "done"]
    /\ UNCHANGED << corpus, artifacts, torn, startArtifacts, run, rpc, dpc,
                    stats, overall, errors, processing_status, limiterVars, files,
                    selectorVars, clientVars, extractVars, pending, exit_status >>

\* AsyncLimiter.acquire: one evaluation of has_capacity; without capacity the
\* worker sleeps and evaluates it again
AcquireCheck(d, p) ==
    /\ ppc[d][p] = "acquire"
    /\ level' = Leaked(level, sinceCheck)
    /\ sinceCheck' = 0
    /\ ppc' = [ppc EXCEPT ![d][p] = IF HasCapacity(level') THEN "granted" ELSE "acquire"]
    /\ UNCHANGED << corpus, artifacts, torn, startArtifacts, run, rpc, dpc, pres, trace,
                    stats, overall, errors, processing_status, grantAges, files,
                    selectorVars, clientVars, extractVars, pending, exit_status >>

\* AsyncLimiter.acquire: self._level += amount; the permit is granted
AcquireCommit(d, p) ==
    /\ ppc[d][p] = "granted"
    /\ level' = level + Permit
    /\ grantAges' = Append(grantAges, 0)
    /\ trace' = Event(d, p, "permit")
    /\ ppc' = [ppc EXCEPT ![d][p] = "call"]
    /\ UNCHANGED << corpus, artifacts, torn, startArtifacts, run, rpc, dpc, pres,
                    stats, overall, errors, processing_status, sinceCheck, files,
                    selectorVars, clientVars, extractVars, pending, exit_status >>

AfterFailedCallRetry == "call"
\* process_page_image after the call has raised: return None, on which
\* process_single_page returns the failed page; the call is not made again
AfterFailedCall == "done"

\* vertex_client.generate inside process_page_image; a failure is caught there,
\* recorded, and turned into the result None
CallPage(d, p) ==
    /\ ppc[d][p] = "call"
    /\ \E ok \in BOOLEAN :
        IF ok
        THEN /\ trace' = Event(d, p, "call")
             /\ ppc' = [ppc EXCEPT ![d][p] = "save"]
             /\ UNCHANGED << pres, errors >>
        ELSE /\ trace' = Event(d, p, "call_failed")
             /\ errors' = AppendRecord(errors, ErrorRecord(d, p, "gemini_ocr_processing"))
             /\ pres' = [pres EXCEPT ![d][p] = Failure("OCR returned no result")]
             /\ ppc' = [ppc EXCEPT ![d][p] = AfterFailedCall]
    /\ UNCHANGED << corpus, artifacts, torn, startArtifacts, run, rpc, dpc,
                    stats, overall, processing_status, limiterVars, files,
                    selectorVars, clientVars, extractVars, pending, exit_status >>

WriteNothing(existing, p) == existing
\* json.dump to <results dir>/<pdf_name>/<page_index>.json
WriteArtifact(existing, p) == existing \cup {p}

\* what process_single_page returns after save_page_result: a failure of
\* mkdir propagates to the handler of process_single_page, a failure of open
\* or json.dump is swallowed by save_page_result
ResultAfterSave(outcome) ==
    IF outcome = "mkdir_failed" THEN Failure("exception") ELSE Success

\* save_page_result and the return of process_single_page; a json.dump that
\* fails leaves the file it has begun
SavePage(d, p) ==
    /\ ppc[d][p] = "save"
    /\ \E outcome \in {"write", "mkdir_failed", "write_open_failed", "write_torn"} :
        /\ trace' = Event(d, p, outcome)
        /\ artifacts' = IF outcome \in {"write", "write_torn"}
                        THEN [artifacts EXCEPT ![d] = WriteArtifact(@, p)]
                        ELSE artifacts
        /\ torn' = IF outcome = "write_torn"
                   THEN [torn EXCEPT ![d] = @ \cup {p}]
                   ELSE torn
        /\ errors' = IF outcome \in {"write_open_failed", "write_torn"}
                     THEN AppendRecord(errors, ErrorRecord(d, p, "save_result"))
                     ELSE errors
        /\ pres' = [pres EXCEPT ![d][p] = ResultAfterSave(outcome)]
    /\ ppc' = [ppc EXCEPT ![d][p] = "done"]
    /\ UNCHANGED << corpus, startArtifacts, run, rpc, dpc,
                    stats, overall, processing_status, limiterVars, files,
                    selectorVars, clientVars, extractVars, pending, exit_status >>

(***************************************************************************)
(* Corpus scheduler: process_all_pdfs.                                     *)
(***************************************************************************)
CountPdfNot(processed_pdfs) == processed_pdfs
\* overall_stats['processed_pdfs'] += 1
CountPdf(processed_pdfs) == processed_pdfs + 1

AccumulateLast(total, x) == x
\* overall_stats[...] += stats[...]
Accumulate(total, x) == total + x

PdfProcessingErrorsUnrecorded(errs, d) == errs
\* the except branch of the loop: self.errors.append({... 'stage': 'pdf_processing'})
PdfProcessingErrors(errs, d) == Append(errs, ErrorRecord(d, NoPage, "pdf_processing"))

\* the as_completed loop of process_all_pdfs takes one finished document:
\* future.result() gives its stats, which are merged, or raises what
\* process_pdf raised, which is recorded
MergePdf(d) ==
    /\ rpc = "running"
    /\ dpc[d] \in {"done", "raised"}
    /\ IF dpc[d] = "done"
       THEN /\ dpc' = [dpc EXCEPT ![d] = "merged"]
            /\ overall' = [overall EXCEPT
                    !.pdf_details = Append(@, d),
                    !.processed_pdfs = CountPdf(@),
                    !.skipped_pdfs = IF stats[d].status = "skipped_already_processed"
                                     THEN @ + 1 ELSE @,
                    !.total_pages = Accumulate(@, stats[d].total_pages),
                    !.successful_pages = Accumulate(@, stats[d].successful_pages),
                    !.failed_pages = Accumulate(@, stats[d].failed_pages),
                    !.conventional_pages = Accumulate(@, stats[d].conventional_pages),
                    !.gemini_ocr_pages = Accumulate(@, stats[d].gemini_ocr_pages),
                    !.skipped_pages = Accumulate(@, stats[d].skipped_pages)]
            /\ UNCHANGED errors
       ELSE /\ dpc' = [dpc EXCEPT ![d] = "caught"]
            /\ errors' = PdfProcessingErrors(errors, d)
            /\ UNCHANGED overall
    /\ UNCHANGED << corpus, artifacts, torn, startArtifacts, run, rpc, ppc, pres, trace,
                    stats, processing_status, limiterVars, files,
                    selectorVars, clientVars, extractVars, pending, exit_status >>

ExitStatusOfErrors(run_stats) == IF errors # << >> THEN 1 ELSE 0
\* main after process_all_pdfs has returned:
\* sys.exit(1) if stats.get('failed_pages', 0) > 0 else sys.exit(0)
ExitStatus(run_stats) == IF run_stats.failed_pages > 0 THEN 1 ELSE 0

\* process_all_pdfs when the glob finds no document: return {'total_pdfs': 0},
\* of which main reads failed_pages as 0
NoPdfFiles ==
    /\ rpc = "running"
    /\ corpus = << >>
    /\ rpc' = "finished"
    /\ exit_status' = ExitStatus(overall)
    /\ UNCHANGED << corpus, artifacts, torn, startArtifacts, run, dpc, ppc, pres, trace,
                    stats, overall, errors, processing_status, limiterVars, files,
                    selectorVars, clientVars, extractVars, pending >>

PoolJoinedEarly == TRUE
\* the with block of the corpus pool has been left: every document future
\* has been taken by the as_completed loop, and process_pdf does not return
\* before the with block of its page pool has been left
PoolJoined == \A d \in DocIds : dpc[d] \in {"merged", "caught"}

\* the steps of process_all_pdfs after the pool, in the order of the calls
CompletionSteps(errs) ==
    (IF errs # << >> THEN << "error_log" >> ELSE << >>)
        \o << "tracking", "cleanup", "summary" >>

AfterCleanupOfResults(existing) == {}
\* cleanup_temp_images: shutil.rmtree(TEMP_IMAGES_DIR), the directory of the
\* rendered images; the page artifacts of a document, in the results
\* directory, are what they were
AfterCleanup(existing) == existing

\* process_all_pdfs after the pool: error log, tracking table, summary;
\* save_error_log, save_csv_tracking and save_summary each swallow a failure
\* of their write
FinishRun ==
    /\ rpc = "running"
    /\ corpus # << >>
    /\ PoolJoined
    /\ rpc' = "finished"
    /\ \E log_ok \in BOOLEAN, tracking_ok \in BOOLEAN, summary_ok \in BOOLEAN :
        files' = [error_log |-> IF log_ok THEN errors ELSE << >>,
                  wrote_error_log |-> errors # << >> /\ log_ok,
                  tracking |-> IF tracking_ok THEN processing_status ELSE << >>,
                  wrote_tracking |-> tracking_ok,
                  summaries |-> IF summary_ok THEN Append(files.summaries, overall)
                                ELSE files.summaries,
                  steps |-> CompletionSteps(errors)]
    /\ exit_status' = ExitStatus(overall)
    /\ artifacts' = [d \in DocIds |-> AfterCleanup(artifacts[d])]
    /\ UNCHANGED << corpus, torn, startArtifacts, run, dpc, ppc, pres, trace,
                    stats, overall, errors, processing_status, limiterVars,
                    selectorVars, clientVars, extractVars, pending >>

\* KeyboardInterrupt is raised in the main thread, which is in the
\* as_completed loop of process_all_pdfs: the loop is left, and the with
\* block waits for the pool
Interrupt ==
    /\ rpc = "running"
    /\ corpus # << >>
    /\ rpc' = "interrupted"
    /\ pending' =
        [docs |-> {d \in DocIds : dpc[d] = "queued"},
         pages |-> {dp \in UNION {{<< d, p >> : p \in PagesOf(d)} : d \in DocIds} :
                        /\ dpc[dp[1]] \in {"queued", "precheck", "open", "collect"}
                        /\ ppc[dp[1]][dp[2]] \in {"idle", "queued"}}]
    /\ UNCHANGED << corpus, artifacts, torn, startArtifacts, run, dpc, ppc, pres, trace,
                    stats, overall, errors, processing_status, limiterVars, files,
                    selectorVars, clientVars, extractVars, exit_status >>

\* the pool has been waited for; main catches KeyboardInterrupt and exits
\* with 130: no error log, tracking table or summary is written
ExitInterrupted ==
    /\ rpc = "interrupted"
    /\ \A d \in DocIds : dpc[d] \in {"done", "raised", "merged", "caught"}
    /\ rpc' = "exited"
    /\ exit_status' = 130
    /\ UNCHANGED << corpus, artifacts, torn, startArtifacts, run, dpc, ppc, pres, trace,
                    stats, overall, errors, processing_status, limiterVars, files,
                    selectorVars, clientVars, extractVars, pending >>

\* the pipeline is started again over the same documents and results directory
Restart ==
    /\ rpc \in {"finished", "exited"}
    /\ run < MaxRuns
    /\ run' = run + 1
    /\ startArtifacts' = Append(startArtifacts, artifacts)
    /\ rpc' = "running"
    /\ dpc' = [d \in DocIds |-> "queued"]
    /\ ppc' = [d \in DocIds |-> [p \in PagesOf(d) |-> "idle"]]
    /\ pres' = [d \in DocIds |-> [p \in PagesOf(d) |-> NoResult]]
    /\ trace' = [d \in DocIds |-> [p \in PagesOf(d) |-> << >>]]
    /\ stats' = [d \in DocIds |-> NewStats]
    /\ overall' = NewOverall(Len(corpus))
    /\ errors' = << >>
    /\ processing_status' = << >>
    /\ level' = 0
    /\ sinceCheck' = 0
    /\ grantAges' = << >>
    /\ files' = NoFiles
    /\ pending' = NoPending
    /\ exit_status' = NoExit
    /\ UNCHANGED << corpus, artifacts, torn, selectorVars, clientVars, extractVars >>

\* one step of a run
Step ==
    \/ \E d \in DocIds : StartPdf(d)
    \/ \E d \in DocIds : PrecheckPdf(d)
    \/ \E d \in DocIds : OpenPdf(d)
    \/ \E d \in DocIds : \E p \in PagesOf(d) : StartPage(d, p)
    \/ \E d \in DocIds : \E p \in PagesOf(d) : CheckPage(d, p)
    \/ \E d \in DocIds : \E p \in PagesOf(d) : RenderPage(d, p)
    \/ \E d \in DocIds : \E p \in PagesOf(d) : AcquireCheck(d, p)
    \/ \E d \in DocIds : \E p \in PagesOf(d) : AcquireCommit(d, p)
    \/ \E d \in DocIds : \E p \in PagesOf(d) : CallPage(d, p)
    \/ \E d \in DocIds : \E p \in PagesOf(d) : SavePage(d, p)
    \/ \E d \in DocIds : \E p \in PagesOf(d) : CollectPage(d, p)
    \/ \E d \in DocIds : FinishPdf(d)
    \/ \E d \in DocIds : MergePdf(d)
    \/ NoPdfFiles
    \/ FinishRun
    \/ Tick

Next == Step \/ Interrupt \/ ExitInterrupted \/ Restart

Spec == Init /\ [][Next]_vars

(***************************************************************************)
(* The selector on its own: every text of the bounded family is handed to  *)
(* check_page_has_text once.                                               *)
(***************************************************************************)
SelectorTexts ==
    { MakeText(lead, n, wl, sep, extra, trail) :
        lead \in 0..MaxPad, n \in 0..MaxWords, wl \in 1..MaxWordLen,
        sep \in 1..MaxSep, extra \in 0..MaxExtra, trail \in 0..MaxPad }

SelectMethod ==
    /\ has_text = "unasked"
    /\ has_text' = IF check_page_has_text(text) THEN "conventional" ELSE "recognition"
    /\ UNCHANGED << corpus, artifacts, torn, startArtifacts, run, rpc, dpc, ppc, pres,
                    trace, stats, overall, errors, processing_status, limiterVars,
                    files, text, clientVars, extractVars, pending, exit_status >>

InitSelector ==
    /\ RunStart(<< >>, << >>, 1)
    /\ text \in SelectorTexts
    /\ has_text = "unasked"
    /\ ClientIdle /\ ExtractIdle

SpecSelector == InitSelector /\ [][SelectMethod]_vars

\* one run over the corpora that fill the two thread pools
InitPools == SelectorIdle /\ ClientIdle /\ ExtractIdle /\ \E s \in PoolScenarios : RunStart(s.corpus, s.artifacts, 1)
SpecPools == InitPools /\ [][Step]_vars

\* one run under the scheduling the threads get: as long as a thread can
\* take a step or time can pass, one of them does
LiveScenarios == Scenarios \cup {DocPoolScenario, NestedScenario}
InitLive == SelectorIdle /\ ClientIdle /\ ExtractIdle /\ \E s \in LiveScenarios : RunStart(s.corpus, s.artifacts, 1)
SpecLive == InitLive /\ [][Step]_vars /\ WF_vars(Step)

\* one run over a results directory that also holds *.json files which are
\* no page of the document as it is now: pages n+1.. of an earlier, longer
\* version of a document of n pages
StaleScenarios ==
    { s \in { [corpus |-> << Doc(n, TRUE, {1}) >>, artifacts |-> << a >>] :
                n \in 1..MaxPages, a \in SUBSET (1..(MaxPages + 1)) } :
        s.artifacts[1] \ (1..s.corpus[1].pages) # {} }
        \cup {EmptyScenario}
InitStale == SelectorIdle /\ ClientIdle /\ ExtractIdle /\ \E s \in StaleScenarios : RunStart(s.corpus, s.artifacts, 1)
SpecStale == InitStale /\ [][Step]_vars

(***************************************************************************)
(* Recognition client: VertexAIGeminiClient.generate, from response.text   *)
(* on.  A response is a sequence of tokens: blanks, the Markdown fence,    *)
(* the word json, JSON values and other text.                              *)
(***************************************************************************)
\* the Markdown code fence, three backquotes
Fence == "<fence>"
JsonWord == "json"
\* the number of headings extract_text_conventional keeps: headings[:10]
MaxHeadings == 10

\* JSON objects: one with every key, the empty one, one whose text is null,
\* one with a list of MaxHeadings + 1 headings and no other key
FullObject == "{full}"
EmptyObject == "{}"
NullTextObject == "{null}"
HeadingsOnlyObject == "{headings}"
\* a JSON value that is not an object
JsonArray == "[]"
JsonObjects == {FullObject, EmptyObject, NullTextObject, HeadingsOnlyObject}
JsonValues == JsonObjects \cup {JsonArray}
ResponseTokens == {" ", Fence, JsonWord, "x"} \cup JsonValues

StartsWith(t, prefix) ==
    Len(t) >= Len(prefix) /\ SubSeq(t, 1, Len(prefix)) = prefix
EndsWith(t, suffix) ==
    Len(t) >= Len(suffix) /\ SubSeq(t, Len(t) - Len(suffix) + 1, Len(t)) = suffix

\* cleaned_response: strip, drop a leading fence with the word json, a
\* leading fence, a trailing fence, strip
CleanResponse(raw_response) ==
    LET c1 == Strip(raw_response)
        c2 == IF StartsWith(c1, << Fence, JsonWord >>) THEN SubSeq(c1, 3, Len(c1)) ELSE c1
        c3 == IF StartsWith(c2, << Fence >>) THEN SubSeq(c2, 2, Len(c2)) ELSE c2
        c4 == IF EndsWith(c3, << Fence >>) THEN SubSeq(c3, 1, Len(c3) - 1) ELSE c3
    IN  Strip(c4)

\* json.loads: the value, or JSONDecodeError
JsonLoads(t) ==
    IF Len(t) = 1 /\ t[1] \in JsonValues THEN t[1] ELSE "JSONDecodeError"

DefaultStructure ==
    [has_headings |-> FALSE, has_tables |-> FALSE, has_lists |-> FALSE,
     has_images |-> FALSE, document_type |-> "unknown"]

\* the result dict built from a parsed object, with the defaults of .get
ParsedResult(parsed_result, raw_response) ==
    IF parsed_result = EmptyObject
    THEN [text |-> << >>, headings |-> << >>, tables |-> << >>, images |-> << >>,
          structure |-> DefaultStructure, raw_response |-> raw_response]
    ELSE IF parsed_result = HeadingsOnlyObject
    THEN [text |-> << >>, headings |-> [i \in 1..(MaxHeadings + 1) |-> "h"],
          tables |-> << >>, images |-> << >>,
          structure |-> DefaultStructure, raw_response |-> raw_response]
    ELSE [text |-> IF parsed_result = NullTextObject THEN "None" ELSE << "x" >>,
          headings |-> << "h" >>, tables |-> << "t" >>, images |-> << "i" >>,
          structure |-> [has_headings |-> TRUE, has_tables |-> TRUE,
                         has_lists |-> TRUE, has_images |-> TRUE,
                         document_type |-> "report"],
          raw_response |-> raw_response]

FallbackWithCleanedText(raw_response) ==
    [text |-> CleanResponse(raw_response), headings |-> << >>, tables |-> << >>,
     images |-> << >>, structure |-> DefaultStructure, raw_response |-> raw_response]
\* the except json.JSONDecodeError branch
FallbackResult(raw_response) ==
    [text |-> raw_response, headings |-> << >>, tables |-> << >>,
     images |-> << >>, structure |-> DefaultStructure, raw_response |-> raw_response]

\* an exception leaving generate
Raised == [exception |-> "raised"]

\* generate: the result dict, or Raised; a parsed value that is not an
\* object has no .get, and len() of a null text raises in the log line
generate(raw_response) ==
    LET parsed_result == JsonLoads(CleanResponse(raw_response))
    IN  IF parsed_result = "JSONDecodeError" THEN FallbackResult(raw_response)
        ELSE IF parsed_result \notin JsonObjects THEN Raised
        ELSE IF parsed_result = NullTextObject THEN Raised
        ELSE ParsedResult(parsed_result, raw_response)

\* process_page_image and process_single_page on what generate gave: an
\* exception becomes the result None and the page a failure, a dict is saved
PageOutcome(result) ==
    IF result = Raised THEN Failure("OCR returned no result") ELSE Success

RECURSIVE SeqsUpTo(_, _)
SeqsUpTo(S, n) ==
    IF n = 0 THEN {<< >>}
    ELSE LET shorter == SeqsUpTo(S, n - 1)
         IN  shorter \cup {Append(t, x) : t \in shorter, x \in S}

Responses == SeqsUpTo(ResponseTokens, MaxTokens)

Generate ==
    /\ ocr_result = Uncalled
    /\ ocr_result' = [called |-> TRUE, result |-> generate(response),
                      page |-> PageOutcome(generate(response))]
    /\ UNCHANGED << corpus, artifacts, torn, startArtifacts, run, rpc, dpc, ppc, pres,
                    trace, stats, overall, errors, processing_status, limiterVars,
                    files, selectorVars, response, extractVars, pending, exit_status >>

InitClient ==
    /\ RunStart(<< >>, << >>, 1)
    /\ SelectorIdle
    /\ response \in Responses
    /\ ocr_result = Uncalled
    /\ ExtractIdle

SpecClient == InitClient /\ [][Generate]_vars

(***************************************************************************)
(* Conventional extraction: the heading detection of                       *)
(* extract_text_conventional.  A page is the sequence of its text spans in *)
(* reading order, a span [size, text]: its font size in points and its     *)
(* text, which is Blank (white space only) or the span's position on the   *)
(* page, so that the texts with content are all different.                 *)
(***************************************************************************)
\* font sizes in points; 12 is 1.2 times 10, and 13, 14 and 15 are three
\* sizes above 1.2 times 10
FontSizes == {10, 12, 13, 14, 15}
\* the number of runs of spans of one size on a page
MaxSpanRuns == 4
\* a run has one blank span, one span with text, or more than half of
\* MaxHeadings spans with text (two such runs exceed the cap)
SpanCounts == {0, 1, (MaxHeadings \div 2) + 1}
Blank == 0

RECURSIVE SpansOfRuns(_)
SpansOfRuns(runs) ==
    IF runs = << >> THEN << >>
    ELSE LET before == SpansOfRuns(SubSeq(runs, 1, Len(runs) - 1))
             r == runs[Len(runs)]
         IN  before \o [k \in 1..Max(r.n, 1) |->
                            [size |-> r.size,
                             text |-> IF r.n = 0 THEN Blank ELSE Len(before) + k]]

SpanPages ==
    { SpansOfRuns(runs) :
        runs \in SeqsUpTo([size : FontSizes, n : SpanCounts], MaxSpanRuns) }

\* text_content = span.get("text", "").strip(); if text_content:
HasContent(span) == span.text # Blank

\* the loop over blocks, lines and spans: font_sizes maps a size to the
\* texts of the spans of that size that have content, in reading order
RECURSIVE font_sizes(_)
font_sizes(page) ==
    IF page = << >> THEN << >>
    ELSE LET fs == font_sizes(SubSeq(page, 1, Len(page) - 1))
             span == page[Len(page)]
         IN  IF ~HasContent(span) THEN fs
             ELSE [size \in DOMAIN fs \cup {span.size} |->
                      IF size # span.size THEN fs[size]
                      ELSE IF size \in DOMAIN fs THEN Append(fs[size], span.text)
                      ELSE << span.text >>]

SetMax(S) == CHOOSE x \in S : \A y \in S : y <= x
SetMin(S) == CHOOSE x \in S : \A y \in S : x <= y

\* sorted(font_sizes.keys(), reverse=True)
RECURSIVE sorted_sizes(_)
sorted_sizes(keys) ==
    IF keys = {} THEN << >>
    ELSE << SetMax(keys) >> \o sorted_sizes(keys \ {SetMax(keys)})

\* size > min(font_sizes.keys()) * 1.2; for the sizes of FontSizes the
\* floating-point product and comparison give what the exact ones give
Exceeds(size, smallest) == size * 10 > smallest * 12

\* if font_sizes: for size in sorted_sizes[:2]: if size > ...: headings.extend(font_sizes[size])
headings(fs) ==
    IF DOMAIN fs = {} THEN << >>
    ELSE LET sorted == sorted_sizes(DOMAIN fs)
             smallest == SetMin(DOMAIN fs)
             Extend(i) == IF i <= Len(sorted) /\ Exceeds(sorted[i], smallest)
                          THEN fs[sorted[i]] ELSE << >>
         IN  Extend(1) \o Extend(2)

\* 'headings': headings[:10] and 'has_headings': len(headings) > 0
extract_text_conventional(page) ==
    LET h == headings(font_sizes(page)) IN
        [headings |-> SubSeq(h, 1, IF Len(h) < MaxHeadings THEN Len(h) ELSE MaxHeadings),
         has_headings |-> Len(h) > 0]

ExtractTextConventional ==
    /\ extracted = NotExtracted
    /\ extracted' = [called |-> TRUE, result |-> extract_text_conventional(spans)]
    /\ UNCHANGED << corpus, artifacts, torn, startArtifacts, run, rpc, dpc, ppc, pres,
                    trace, stats, overall, errors, processing_status, limiterVars,
                    files, selectorVars, clientVars, spans, pending, exit_status >>

InitHeadings ==
    /\ RunStart(<< >>, << >>, 1)
    /\ SelectorIdle
    /\ ClientIdle
    /\ spans \in SpanPages
    /\ extracted = NotExtracted

SpecHeadings == InitHeadings /\ [][ExtractTextConventional]_vars

(***************************************************************************)
(* Vocabulary of the properties.                                           *)
(***************************************************************************)
\* the artifacts that existed when the current run began
StartOfRun == startArtifacts[run]
\* process_pdf has returned for d
Finished(d) == dpc[d] \in {"done", "merged"}
\* process_single_page has returned for page p of d
Returned(d, p) == ppc[d][p] \in {"done", "collected"}
\* the external operations page p of d has gone through in this run
Ops(d, p) == {trace[d][p][i] : i \in 1..Len(trace[d][p])}
\* the trace of a page that was rendered, recognised and written
FullTrace == << "open", "render", "permit", "call", "write" >>
\* the trace of a page up to its recognition call, which succeeded
RecognisedTrace == << "open", "render", "permit", "call" >>
\* the trace of a page whose recognition call failed
FailedCallTrace == << "open", "render", "permit", "call_failed" >>
AllPages == {dp \in DocIds \X (1..(MAX_WORKERS + 1)) : dp[2] \in PagesOf(dp[1])}

(***************************************************************************)
(* C1. Rate limiter bound under concurrency: in every time window at most  *)
(* max_rate permits are granted, whatever the interleaving of the workers' *)
(* acquire operations.  (grantAges holds the permits granted less than one *)
(* window ago.)                                                            *)
(***************************************************************************)
C1_RateLimitBound == Len(grantAges) <= max_rate

(***************************************************************************)
(* C2. Two-dimensional concurrency bound: at most MAX_PDF_WORKERS          *)
(* documents are in process, at most MAX_WORKERS page workers run in each, *)
(* only documents in process have running page workers, and so at most     *)
(* MAX_PDF_WORKERS * MAX_WORKERS page workers run in total.                *)
(***************************************************************************)
C2_ConcurrencyBound ==
    /\ Cardinality(InFlightDocs) <= MAX_PDF_WORKERS
    /\ \A d \in DocIds : Cardinality(RunningPages(d)) <= MAX_WORKERS
    /\ \A d \in DocIds : RunningPages(d) # {} => d \in InFlightDocs
    /\ Cardinality({dp \in AllPages : dp[2] \in RunningPages(dp[1])})
          <= MAX_PDF_WORKERS * MAX_WORKERS

\* a page pool is full while a page of the document still waits for a thread
C2_PagePoolFull ==
    \E d \in DocIds :
        /\ Cardinality(RunningPages(d)) = MAX_WORKERS
        /\ \E p \in PagesOf(d) : ppc[d][p] = "queued"

\* the document pool is full while a document still waits for a thread
C2_DocPoolFull ==
    /\ Cardinality(InFlightDocs) = MAX_PDF_WORKERS
    /\ \E d \in DocIds : dpc[d] = "queued"

(***************************************************************************)
(* C3. Page-level idempotency: a page worker invoked for a page whose      *)
(* artifact exists returns success with skipped = true and has opened,     *)
(* rendered, acquired, called and written nothing; the artifact stays.     *)
(***************************************************************************)
C3_PageIdempotent ==
    \A d \in DocIds : \A p \in PagesOf(d) :
        (p \in StartOfRun[d] /\ ppc[d][p] \notin {"idle", "queued", "started"}) =>
            /\ Returned(d, p)
            /\ pres[d][p] = Skipped
            /\ trace[d][p] = << >>
            /\ p \in artifacts[d]

\* a page was skipped in a document of which another page was written
C3_Witness ==
    \E d \in DocIds : \E p, q \in PagesOf(d) :
        /\ p \in StartOfRun[d]
        /\ ppc[d][p] = "collected"
        /\ pres[d][p] = Skipped
        /\ trace[d][q] = FullTrace

C5_Original ==
    \A d \in DocIds :
        (corpus[d].opens /\ Finished(d)) =>
            /\ Cardinality({p \in PagesOf(d) : {"call", "call_failed"} \cap Ops(d, p) # {}})
                  = corpus[d].pages - Cardinality(StartOfRun[d])
            /\ artifacts[d] = PagesOf(d)

(***************************************************************************)
(* C5 as amended.  When process_pdf has returned for a document that       *)
(* opens and did not fail as a whole (status failed, no page dispatched):  *)
(* the pages whose artifact existed were not touched and keep their        *)
(* artifact; each of the N - K other pages was opened for rendering, was   *)
(* sent for recognition only after its render succeeded and was written at *)
(* most once; it has a complete artifact exactly when its render, its      *)
(* recognition call and its write all succeeded, and an incomplete one     *)
(* exactly when the write failed after the file was begun.  (So N          *)
(* artifacts exist after a run in which none of the N - K pages fails.)    *)
(***************************************************************************)
C5_Resumable ==
    \A d \in DocIds :
        (corpus[d].opens /\ Finished(d) /\ stats[d].status # "failed") =>
            /\ Cardinality({p \in PagesOf(d) : trace[d][p] # << >>})
                  = corpus[d].pages - Cardinality(StartOfRun[d])
            /\ \A p \in PagesOf(d) :
                /\ p \in StartOfRun[d] => (trace[d][p] = << >> /\ p \in artifacts[d])
                /\ p \notin StartOfRun[d] =>
                    /\ trace[d][p] \in
                          { << "open_failed" >>, << "open", "render_failed" >>,
                            FailedCallTrace, FullTrace } \cup
                          { RecognisedTrace \o << e >> :
                              e \in {"mkdir_failed", "write_open_failed", "write_torn"} }
                    /\ (p \in artifacts[d] /\ p \notin torn[d]) <=> trace[d][p] = FullTrace
                    /\ p \in torn[d] <=> trace[d][p] = RecognisedTrace \o << "write_torn" >>

\* a resumed document: some but not all artifacts existed, now all exist
C5_Witness ==
    \E d \in DocIds :
        /\ corpus[d].opens /\ Finished(d)
        /\ StartOfRun[d] # {} /\ StartOfRun[d] # PagesOf(d)
        /\ artifacts[d] = PagesOf(d)
        /\ \E p \in PagesOf(d) : trace[d][p] = FullTrace

C7_FailureIsolation ==
    \A d \in DocIds : \A p \in PagesOf(d) :
        (/\ Finished(d)
         /\ stats[d].status # "skipped_already_processed"
         /\ corpus[d].opens
         /\ StartOfRun[d] = {}
         /\ trace[d][p] = FailedCallTrace
         /\ \A q \in PagesOf(d) \ {p} : trace[d][q] = FullTrace) =>
            /\ stats[d].failed_pages = 1
            /\ stats[d].successful_pages = corpus[d].pages - 1
            /\ stats[d].total_pages = corpus[d].pages
            /\ stats[d].status = "completed_with_errors"
            /\ artifacts[d] = PagesOf(d) \ {p}

\* one recognition call failed in a document whose other pages were all written
C7_Witness ==
    \E d \in DocIds : \E p \in PagesOf(d) :
        /\ Finished(d)
        /\ corpus[d].pages = MaxPages
        /\ StartOfRun[d] = {}
        /\ trace[d][p] = FailedCallTrace
        /\ \A q \in PagesOf(d) \ {p} : trace[d][q] = FullTrace
        /\ stats[d].failed_pages = 1

(***************************************************************************)
(* C8. Method selection is honoured by the page worker: a page without an  *)
(* artifact for which the selector answers conventional is never rendered, *)
(* never waits for or gets a permit and is never sent for recognition, and *)
(* it is counted in conventional_pages.                                    *)
(***************************************************************************)
C8_SelectionHonoured ==
    \A d \in DocIds : \A p \in PagesOf(d) :
        (p \notin StartOfRun[d] /\ check_page_has_text(EmbeddedText(d, p))) =>
            /\ ppc[d][p] \notin {"acquire", "granted", "call"}
            /\ Ops(d, p) \cap {"render", "permit", "call", "call_failed"} = {}
            /\ (Finished(d) /\ pres[d][p].success) => stats[d].conventional_pages >= 1

(***************************************************************************)
(* C9. Selector function.  Length and word count of a text are stated      *)
(* here from the positions of its non-whitespace characters.               *)
(***************************************************************************)
Ink(t) == {i \in 1..Len(t) : t[i] \notin Whitespace}
\* characters from the first to the last non-whitespace character
CleanLength(t) ==
    IF Ink(t) = {} THEN 0
    ELSE (CHOOSE i \in Ink(t) : \A j \in Ink(t) : j <= i)
            - (CHOOSE i \in Ink(t) : \A j \in Ink(t) : i <= j) + 1
\* whitespace-separated words, counted at their last character
WordEnds(t) ==
    Cardinality({i \in Ink(t) : i = Len(t) \/ t[i + 1] \in Whitespace})

C10_SaveFailureIsFailure ==
    \A d \in DocIds : \A p \in PagesOf(d) :
        (Returned(d, p) /\ pres[d][p].success /\ ~pres[d][p].skipped) =>
            (p \in artifacts[d] /\ p \notin torn[d])

(***************************************************************************)
(* C11. Atomic artifact visibility: an artifact is written in full or not  *)
(* at all, so the page-level check never skips a page on an incomplete     *)
(* artifact and the document-level check never skips a document that has   *)
(* an incomplete artifact.                                                 *)
(***************************************************************************)
C11_AtomicArtifacts ==
    \A d \in DocIds :
        /\ \A p \in PagesOf(d) : pres[d][p] = Skipped => p \notin torn[d]
        /\ stats[d].status = "skipped_already_processed" => torn[d] = {}

(***************************************************************************)
(* C12. Document-open failure: when process_pdf has returned for a         *)
(* document that cannot be opened, no page of it was handed to a page      *)
(* worker, exactly one ErrorRecord names the document (stage pdf_open,     *)
(* page N/A), and the stats have status failed with total_pages,           *)
(* successful_pages and failed_pages all 0; the corpus scheduler merges    *)
(* the stats like those of any other document.                             *)
(***************************************************************************)
ErrorsOf(d) == {i \in 1..Len(errors) : errors[i].pdf_file = d}

C12_OpenFailure ==
    \A d \in DocIds :
        (~corpus[d].opens /\ Finished(d)) =>
            /\ \A p \in PagesOf(d) : ppc[d][p] = "idle" /\ trace[d][p] = << >>
            /\ Cardinality(ErrorsOf(d)) = 1
            /\ \A i \in ErrorsOf(d) : errors[i] = ErrorRecord(d, NoPage, "pdf_open")
            /\ stats[d].status = "failed"
            /\ stats[d].total_pages = 0
            /\ stats[d].successful_pages = 0
            /\ stats[d].failed_pages = 0
            /\ artifacts[d] = StartOfRun[d]
            /\ dpc[d] = "merged" => d \in {overall.pdf_details[i] : i \in 1..Len(overall.pdf_details)}

\* a document with artifacts of an earlier run no longer opens: the precheck
\* and process_pdf both failed to open it, and it was merged
C12_Witness ==
    \E d \in DocIds :
        /\ ~corpus[d].opens
        /\ StartOfRun[d] # {}
        /\ dpc[d] = "merged"
        /\ stats[d].status = "failed"
        /\ Len(errors) = 1

Dispatched(d) == \A p \in PagesOf(d) : ppc[d][p] # "idle"

Merged == {overall.pdf_details[i] : i \in 1..Len(overall.pdf_details)}

C14_CorpusGuard ==
    /\ \A d \in DocIds :
        dpc[d] = "caught" =>
            /\ Cardinality(ErrorsOf(d)) = 1
            /\ \A i \in ErrorsOf(d) : errors[i] = ErrorRecord(d, NoPage, "pdf_processing")
            /\ d \notin Merged
    /\ rpc = "finished" =>
            /\ \A d \in DocIds : dpc[d] \in {"merged", "caught"}
            /\ Merged = {d \in DocIds : dpc[d] = "merged"}
            /\ Len(overall.pdf_details) = Cardinality(Merged)
            /\ overall.processed_pdfs = Cardinality(Merged)
            /\ overall.skipped_pdfs = Cardinality(
                    {d \in Merged : stats[d].status = "skipped_already_processed"})

\* the first document raised, the second was processed and merged, and the
\* run has finished
C14_Witness ==
    /\ rpc = "finished"
    /\ \E d, e \in DocIds :
        /\ d < e
        /\ dpc[d] = "caught"
        /\ dpc[e] = "merged"
        /\ stats[e].status = "completed"
        /\ overall.processed_pdfs = 1

(***************************************************************************)
(* C15. The run always emits a summary: whenever process_all_pdfs has      *)
(* returned, whatever the corpus, exactly one summary has been written.    *)
(***************************************************************************)
C15_AlwaysSummary == rpc = "finished" => Len(files.summaries) = 1

(***************************************************************************)
(* C16. Order independence: when the run has finished, the counters of     *)
(* overall_stats are a function of the outcomes alone (which documents     *)
(* raised, were skipped, failed as a whole or were dispatched, and for     *)
(* each dispatched page whether it succeeded, failed or was skipped),      *)
(* whatever the order in which documents and pages started, completed and  *)
(* were merged.                                                            *)
(***************************************************************************)
RECURSIVE SumOver(_, _)
SumOver(f, S) ==
    IF S = {} THEN 0
    ELSE LET x == CHOOSE y \in S : TRUE IN f[x] + SumOver(f, S \ {x})

\* the counters a document contributes, from its outcome and its pages'
OutcomeCounters(d) ==
    LET ok == {p \in PagesOf(d) : pres[d][p].success}
        sk == {p \in PagesOf(d) : pres[d][p].skipped}
    IN  IF dpc[d] = "caught"
        THEN [docs |-> 0, skipped_docs |-> 0, total |-> 0, successful |-> 0,
              failed |-> 0, recognized |-> 0, skipped |-> 0]
        ELSE IF stats[d].status = "skipped_already_processed"
        THEN [docs |-> 1, skipped_docs |-> 1, total |-> corpus[d].pages,
              successful |-> Cardinality(StartOfRun[d]), failed |-> 0,
              recognized |-> Cardinality(StartOfRun[d]), skipped |-> 0]
        ELSE IF Dispatched(d)
        THEN [docs |-> 1, skipped_docs |-> 0, total |-> corpus[d].pages,
              successful |-> Cardinality(ok),
              failed |-> corpus[d].pages - Cardinality(ok),
              recognized |-> Cardinality(ok \ sk), skipped |-> Cardinality(sk)]
        ELSE [docs |-> 1, skipped_docs |-> 0,
              total |-> IF corpus[d].opens THEN corpus[d].pages ELSE 0,
              successful |-> 0, failed |-> 0, recognized |-> 0, skipped |-> 0]

Total(field) == SumOver([d \in DocIds |-> OutcomeCounters(d)[field]], DocIds)

C16_OrderIndependent ==
    (rpc = "finished" /\ corpus # << >>) =>
        /\ overall.processed_pdfs = Total("docs")
        /\ overall.skipped_pdfs = Total("skipped_docs")
        /\ overall.total_pages = Total("total")
        /\ overall.successful_pages = Total("successful")
        /\ overall.failed_pages = Total("failed")
        /\ overall.gemini_ocr_pages = Total("recognized")
        /\ overall.skipped_pages = Total("skipped")
        /\ overall.conventional_pages = 0

\* the second document submitted was merged before the first
C16_Witness ==
    /\ rpc = "finished"
    /\ Len(overall.pdf_details) = 2
    /\ overall.pdf_details[1] > overall.pdf_details[2]
    /\ overall.skipped_pdfs = 1
    /\ overall.gemini_ocr_pages = 2

(***************************************************************************)
(* C17. Malformed-response degradation: when the response of the           *)
(* recognition call is not JSON (not a JSON value, bare or wrapped in a    *)
(* Markdown code fence), the page outcome is success and the result has    *)
(* text equal to the raw response, empty headings, tables and images, the  *)
(* four structure booleans false, and raw_response equal to the raw        *)
(* response.                                                               *)
(***************************************************************************)
Blanks(n) == [i \in 1..n |-> " "]

\* the responses that are a JSON value, bare or fenced
FencedJson ==
    { Blanks(a) \o open \o Blanks(b) \o << v >> \o Blanks(c) \o close \o Blanks(e) :
        a \in 0..MaxTokens, b \in 0..MaxTokens, c \in 0..MaxTokens, e \in 0..MaxTokens,
        open \in {<< >>, << Fence >>, << Fence, JsonWord >>, << Fence, JsonWord, Fence >>},
        close \in {<< >>, << Fence >>}, v \in JsonValues }

C17_MalformedResponse ==
    (ocr_result.called /\ response \notin FencedJson) =>
        /\ ocr_result.page = Success
        /\ ocr_result.result # Raised
        /\ ocr_result.result.text = response
        /\ ocr_result.result.headings = << >>
        /\ ocr_result.result.tables = << >>
        /\ ocr_result.result.images = << >>
        /\ ~ocr_result.result.structure.has_headings
        /\ ~ocr_result.result.structure.has_tables
        /\ ~ocr_result.result.structure.has_lists
        /\ ~ocr_result.result.structure.has_images
        /\ ocr_result.result.raw_response = response

\* a fenced response whose content is not JSON was degraded to its raw text
C17_Witness ==
    /\ ocr_result.called
    /\ response = << Fence, JsonWord, "x", Fence >>
    /\ ocr_result.result = FallbackResult(response)
    /\ ocr_result.page = Success

(***************************************************************************)
(* C18. Shared-list discipline: the appends that concurrently running page *)
(* workers, document schedulers and the corpus loop make to the error list *)
(* and to the tracking list exclude each other, so no record is lost: at   *)
(* every moment, and so at the end of the run, the lists hold exactly the  *)
(* records appended, each once.                                            *)
(***************************************************************************)
Events(d, p) == {trace[d][p][i] : i \in DOMAIN trace[d][p]}

\* the error records the handlers of this run have appended so far
AppendedErrors ==
    {ErrorRecord(dp[1], dp[2], "gemini_ocr_processing") :
        dp \in {x \in AllPages : "call_failed" \in Events(x[1], x[2])}}
    \cup
    {ErrorRecord(dp[1], dp[2], "save_result") :
        dp \in {x \in AllPages :
                    Events(x[1], x[2]) \cap {"write_open_failed", "write_torn"} # {}}}
    \cup
    {ErrorRecord(dp[1], dp[2], "page_processing") :
        dp \in {x \in AllPages : ppc[x[1]][x[2]] = "collected" /\ ~pres[x[1]][x[2]].success}}
    \cup
    {ErrorRecord(d, NoPage, "pdf_open") :
        d \in {e \in DocIds : dpc[e] \in {"done", "merged"} /\ stats[e].status = "failed"}}
    \cup
    {ErrorRecord(d, NoPage, "pdf_processing") : d \in {e \in DocIds : dpc[e] = "caught"}}

\* the tracking records the document schedulers of this run have appended
AppendedTracking ==
    {[pdf |-> d, stats |-> stats[d]] :
        d \in {e \in DocIds : dpc[e] \in {"done", "merged"}
                               /\ stats[e].status # "skipped_already_processed"}}

ExactlyOnce(list, records) ==
    /\ Len(list) = Cardinality(records)
    /\ \A r \in records : \E i \in DOMAIN list : list[i] = r

C19_Cancellation ==
    rpc \in {"interrupted", "exited"} =>
        /\ \A d \in pending.docs : dpc[d] = "queued"
        /\ \A dp \in pending.pages : ppc[dp[1]][dp[2]] \in {"idle", "queued"}
        /\ \A d \in DocIds : (artifacts[d] \ startArtifacts[run][d]) \cap torn[d] = {}

(***************************************************************************)
(* C20. Tracking completeness: at the end of a run the persisted tracking  *)
(* table holds exactly one record for every document of the corpus,        *)
(* whatever its status.                                                    *)
(***************************************************************************)
C20_TrackingComplete ==
    rpc = "finished" =>
        /\ Len(files.tracking) = Len(corpus)
        /\ \A d \in DocIds : \E i \in DOMAIN files.tracking : files.tracking[i].pdf = d

PageErrors(d, p) == {i \in DOMAIN errors : errors[i].pdf_file = d /\ errors[i].page = p}

C22_OneErrorPerFailedPage ==
    rpc = "finished" =>
        /\ \A dp \in AllPages :
                "call_failed" \in Events(dp[1], dp[2]) =>
                    Cardinality(PageErrors(dp[1], dp[2])) = 1
        /\ Cardinality({i \in DOMAIN errors : errors[i].page # NoPage}) = overall.failed_pages

(***************************************************************************)
(* C23. Counter consistency: every stats dict process_pdf returns, and the *)
(* final overall stats, satisfy successful + failed = total and            *)
(* successful = conventional + recognised + skipped.                       *)
(***************************************************************************)
Consistent(st) ==
    /\ st.successful_pages + st.failed_pages = st.total_pages
    /\ st.successful_pages = st.conventional_pages + st.gemini_ocr_pages + st.skipped_pages

C23_CounterConsistency ==
    /\ \A d \in DocIds : dpc[d] \in {"done", "merged"} => Consistent(stats[d])
    /\ (rpc = "finished" /\ corpus # << >>) => Consistent(overall)

(***************************************************************************)
(* C24. Structure consistency: every persisted result has a text, and its  *)
(* has_headings, has_tables and has_images are true exactly when its       *)
(* headings, tables and images list is non-empty.                          *)
(***************************************************************************)
C24_StructureConsistent ==
    (ocr_result.called /\ ocr_result.page.success) =>
        LET result == ocr_result.result IN
            /\ "text" \in DOMAIN result
            /\ result.structure.has_headings <=> result.headings # << >>
            /\ result.structure.has_tables <=> result.tables # << >>
            /\ result.structure.has_images <=> result.images # << >>

(***************************************************************************)
(* C25. Headings bound: every persisted result, whichever method produced  *)
(* it, has at most 10 headings.                                            *)
(***************************************************************************)
C25_HeadingsBound ==
    (ocr_result.called /\ ocr_result.page.success) =>
        Len(ocr_result.result.headings) <= MaxHeadings

(***************************************************************************)
(* C26. Exit signal: after a run that completes, the exit status of the    *)
(* process is non-zero if and only if the overall count of failed pages is *)
(* greater than zero; failed documents, recorded errors and failed writes  *)
(* of the final files do not change it.                                    *)
(***************************************************************************)
C26_ExitSignal ==
    rpc = "finished" =>
        /\ exit_status \in {0, 1}
        /\ exit_status # 0 <=> overall.failed_pages > 0

\* a run with a failed page left with a non-zero status
C26_Witness ==
    /\ rpc = "finished"
    /\ overall.failed_pages > 0
    /\ exit_status = 1

(***************************************************************************)
(* C27. Per-page step ordering: for every page processed by recognition    *)
(* the events occur in the order render, permit, recognition call,         *)
(* persist; no recognition call starts before its worker has been granted  *)
(* a permit, and a skipped page never acquires a permit.                   *)
(***************************************************************************)
CallEvents == {"call", "call_failed"}
SaveEvents == {"write", "mkdir_failed", "write_open_failed", "write_torn"}

\* in t, every event of the set later has an event of the set earlier before it
Precedes(t, earlier, later) ==
    \A i \in DOMAIN t : t[i] \in later => \E j \in 1..(i - 1) : t[j] \in earlier

C27_StepOrdering ==
    \A dp \in AllPages :
        LET t == trace[dp[1]][dp[2]] IN
            /\ Precedes(t, {"render"}, {"permit"})
            /\ Precedes(t, {"permit"}, CallEvents)
            /\ Precedes(t, {"call"}, SaveEvents)
            /\ ppc[dp[1]][dp[2]] \in {"call", "save"} => "permit" \in Events(dp[1], dp[2])
            /\ pres[dp[1]][dp[2]] = Skipped => t = << >>

\* of two pages of a document, one was skipped without a permit and the
\* other went through the four steps in order
C27_Witness ==
    \E d \in DocIds :
        /\ corpus[d].pages = 2
        /\ pres[d][1] = Skipped /\ trace[d][1] = << >>
        /\ pres[d][2] = Success /\ trace[d][2] = FullTrace

(***************************************************************************)
(* C28. A returned response is never a page failure: whenever the          *)
(* recognition call returns a response body, of any shape (not JSON, JSON  *)
(* that is not an object, an object with missing or null fields), the page *)
(* outcome is a success.                                                   *)
(***************************************************************************)
C28_ReturnedResponseSucceeds ==
    ocr_result.called => ocr_result.page.success

(***************************************************************************)
(* C29. Completion ordering: the error log, the tracking table, the        *)
(* removal of the rendered images and the summary are produced only after  *)
(* every document scheduler and every page worker of the run has finished, *)
(* in that order, the summary last; no page worker can still be reading an *)
(* image when the images are removed.  The error log step is taken iff the *)
(* error list is non-empty, and the log is persisted unless its write      *)
(* fails, which the run survives.                                          *)
(***************************************************************************)
Rank(step) ==
    CASE step = "error_log" -> 1
      [] step = "tracking" -> 2
      [] step = "cleanup" -> 3
      [] step = "summary" -> 4

\* the completion steps were taken after all workers, in the order of Rank
AfterWorkersInOrder ==
    /\ \A d \in DocIds : dpc[d] \in {"merged", "caught"}
    /\ \A dp \in AllPages : ppc[dp[1]][dp[2]] \in {"idle", "collected"}
    /\ \A i \in DOMAIN files.steps : \A j \in DOMAIN files.steps :
            i < j => Rank(files.steps[i]) < Rank(files.steps[j])
    /\ files.steps[Len(files.steps)] = "summary"
    /\ {"tracking", "cleanup"} \subseteq {files.steps[i] : i \in DOMAIN files.steps}

\* the claim as stated: the error log is written iff the list is non-empty
C29_Original ==
    files.steps # << >> =>
        /\ AfterWorkersInOrder
        /\ files.wrote_error_log <=> errors # << >>

C29_CompletionOrdering ==
    files.steps # << >> =>
        /\ AfterWorkersInOrder
        /\ files.steps[1] = "error_log" <=> errors # << >>
        /\ files.wrote_error_log => (errors # << >> /\ files.error_log = errors)

\* a run with a failed page wrote its error log and then the other files
C29_Witness ==
    /\ rpc = "finished"
    /\ files.steps = << "error_log", "tracking", "cleanup", "summary" >>
    /\ files.wrote_error_log
    /\ Len(files.summaries) = 1
    /\ \E dp \in AllPages : ppc[dp[1]][dp[2]] = "collected"

(***************************************************************************)
(* C30. RunStats is the sum of DocumentStats: when the run completes       *)
(* without an exception caught at corpus level, each page counter of the   *)
(* overall stats equals the sum of that counter over the stats of all      *)
(* documents, processed_pdfs equals total_pdfs, and pdf_details holds      *)
(* exactly one entry per document.                                         *)
(***************************************************************************)
StatsSum(field) == SumOver([d \in DocIds |-> stats[d][field]], DocIds)

C30_RunStatsIsSum ==
    (rpc = "finished" /\ corpus # << >> /\ \A d \in DocIds : dpc[d] = "merged") =>
        /\ overall.total_pages = StatsSum("total_pages")
        /\ overall.successful_pages = StatsSum("successful_pages")
        /\ overall.failed_pages = StatsSum("failed_pages")
        /\ overall.conventional_pages = StatsSum("conventional_pages")
        /\ overall.gemini_ocr_pages = StatsSum("gemini_ocr_pages")
        /\ overall.skipped_pages = StatsSum("skipped_pages")
        /\ overall.processed_pdfs = overall.total_pdfs
        /\ overall.total_pdfs = Len(corpus)
        /\ Len(overall.pdf_details) = Len(corpus)
        /\ \A d \in DocIds : \E i \in DOMAIN overall.pdf_details : overall.pdf_details[i] = d

\* two documents, one skipped and one recognised with a failed page or not,
\* were merged into the overall stats
C30_Witness ==
    /\ rpc = "finished"
    /\ Len(corpus) = 2
    /\ \A d \in DocIds : dpc[d] = "merged"
    /\ overall.processed_pdfs = 2
    /\ overall.skipped_pdfs = 1
    /\ overall.total_pages = 2
    /\ overall.successful_pages + overall.failed_pages = 2

(***************************************************************************)
(* C31. No retries: within one run each page of a document is handed to at *)
(* most one page worker and at most one recognition call is made for it; a *)
(* failed recognition call is not made again in the same run.              *)
(***************************************************************************)
\* how many events of the set the trace t holds
Occurrences(t, events) == Cardinality({i \in DOMAIN t : t[i] \in events})

C31_NoRetries ==
    \A dp \in AllPages :
        LET t == trace[dp[1]][dp[2]] IN
            /\ Occurrences(t, {"open", "open_failed"}) <= 1
            /\ Occurrences(t, {"permit"}) <= 1
            /\ Occurrences(t, CallEvents) <= 1
            /\ "call_failed" \in Events(dp[1], dp[2]) =>
                    /\ t = FailedCallTrace
                    /\ ppc[dp[1]][dp[2]] \in {"done", "collected"}

\* the run is over and the page whose call failed has had that one call only
C31_Witness ==
    /\ rpc = "finished"
    /\ \E dp \in AllPages :
            /\ trace[dp[1]][dp[2]] = FailedCallTrace
            /\ ~pres[dp[1]][dp[2]].success

(***************************************************************************)
(* C32. ErrorRecords are append-only within a run: every step of a worker  *)
(* leaves the error list unchanged or extends it by one record at its end; *)
(* no record is removed, modified or merged with another.                  *)
(***************************************************************************)
C32_AppendOnly ==
    [][run' = run =>
        \/ errors' = errors
        \/ /\ Len(errors') = Len(errors) + 1
           /\ SubSeq(errors', 1, Len(errors)) = errors]_vars

\* the two records of one failed page stand side by side, unmerged
C32_Witness ==
    /\ Len(errors) >= 2
    /\ errors[1] = ErrorRecord(1, 1, "gemini_ocr_processing")
    /\ errors[2] = ErrorRecord(1, 1, "page_processing")

(***************************************************************************)
(* C33. Pre-existing artifacts are untouched: an artifact that exists for  *)
(* a page of a document when a run begins is never overwritten, truncated  *)
(* or deleted by that run, under every interleaving of page workers and    *)
(* documents.                                                              *)
(***************************************************************************)
C33_PreexistingUntouched ==
    \A d \in DocIds : \A p \in StartOfRun[d] :
        /\ p \in artifacts[d]
        /\ Events(d, p) \cap SaveEvents = {}

\* the run has removed the rendered images and written a page next to an
\* artifact that was there before
C33_Witness ==
    /\ rpc = "finished"
    /\ \E i \in DOMAIN files.steps : files.steps[i] = "cleanup"
    /\ \E d \in DocIds :
            /\ StartOfRun[d] # {}
            /\ artifacts[d] \ StartOfRun[d] # {}
            /\ StartOfRun[d] \subseteq artifacts[d]

(***************************************************************************)
(* C34. A skipped document is really complete: whenever process_pdf        *)
(* returns skipped_already_processed for a document of N pages, an         *)
(* artifact exists for each page index 1..N; files of the results          *)
(* directory that are no page of the document do not satisfy the precheck  *)
(* while a page is missing.                                                *)
(***************************************************************************)
C34_SkippedIsComplete ==
    \A d \in DocIds :
        stats[d].status = "skipped_already_processed" =>
            \A p \in PagesOf(d) : p \in artifacts[d]

(***************************************************************************)
(* C35. The recognized counter counts the recognition work of this run:    *)
(* in the stats of every document process_pdf has returned, and in the     *)
(* overall stats of a finished run, gemini_ocr_pages is the number of      *)
(* pages for which a recognition call was made and succeeded in this run;  *)
(* pages and documents skipped because their artifacts existed add         *)
(* nothing to it.                                                          *)
(***************************************************************************)
Recognised(d) == {p \in PagesOf(d) : "call" \in Events(d, p)}

C35_RecognisedCountsCalls ==
    /\ \A d \in DocIds :
            Finished(d) => stats[d].gemini_ocr_pages = Cardinality(Recognised(d))
    /\ rpc = "finished" =>
            overall.gemini_ocr_pages =
                SumOver([d \in DocIds |-> Cardinality(Recognised(d))], DocIds)

(***************************************************************************)
(* C36. Heading detection in conventional extraction: the heading          *)
(* candidates are exactly the texts of the spans whose font size is one of *)
(* the two largest distinct sizes on the page and exceeds the smallest     *)
(* observed size by at least 20% (a size exactly 1.2 times the smallest    *)
(* qualifies); the stored list is the first 10 of them, taken from the     *)
(* largest size first and in reading order within a size; a page with a    *)
(* single font size has no headings.                                       *)
(***************************************************************************)
\* the sizes observed on the page: those of the spans that have content
ObservedSizes == {spans[i].size : i \in {j \in DOMAIN spans : HasContent(spans[j])}}
TwoLargest ==
    {s \in ObservedSizes : Cardinality({t \in ObservedSizes : t > s}) < 2}
\* the positions of the heading candidates
Candidates ==
    {i \in DOMAIN spans :
        /\ HasContent(spans[i])
        /\ spans[i].size \in TwoLargest
        /\ spans[i].size * 10 >= SetMin(ObservedSizes) * 12}
\* the place of candidate i in the list of candidates
Place(i) ==
    1 + Cardinality({j \in Candidates :
                        \/ spans[j].size > spans[i].size
                        \/ spans[j].size = spans[i].size /\ j < i})

C36_HeadingDetection ==
    extracted.called =>
        LET stored == extracted.result.headings IN
            /\ extracted.result.has_headings <=> Candidates # {}
            /\ Len(stored) = IF Cardinality(Candidates) < MaxHeadings
                             THEN Cardinality(Candidates) ELSE MaxHeadings
            /\ \A i \in Candidates :
                    Place(i) <= MaxHeadings => stored[Place(i)] = spans[i].text
            /\ Cardinality(ObservedSizes) = 1 => stored = << >>

====
